---- MODULE Spec2Model ----
(***************************************************************************)
(* A model of ART's fault manager (runtime/fault_handler.cc): the list of  *)
(* generated code ranges with its lock-free walk, the writers that add and *)
(* remove ranges, the dispatch of a fault to the registered handlers, and  *)
(* the lifecycle of the manager.                                           *)
(*                                                                         *)
(* Every access to an atomic (generated_code_ranges_, a node's next) is one *)
(* step of the thread that makes it, so walks and writers interleave at    *)
(* the granularity of single loads and stores.  A node's start and size    *)
(* are written once, before the node is published.  Reading a node that    *)
(* has been deleted is undefined behaviour: the walk then sees arbitrary   *)
(* field values.                                                           *)
(***************************************************************************)
EXTENDS Integers, Sequences, FiniteSets, TLC

\* ------------------------------------------------------------ bounds

\* Number of GeneratedCodeRange nodes that can ever be allocated.
MaxNodes == 3
\* uintptr_t is modelled as the integers modulo AddrSpace.
AddrSpace == 8
\* Number of FaultHandler objects that can ever be constructed.
MaxHandlers == 2

Null == 0
Nodes == 1..MaxNodes
Addr == 0..(AddrSpace - 1)
\* The thread the runtime is created on, a second thread that registers and
\* unregisters code, and a thread that runs generated code.
MainThread == "main"
Threads == {"main", "jit", "mutator"}
NoThread == "nobody"
\* Arguments the callers pass to AddGeneratedCodeRange: memory regions
\* [start, start+size) that lie inside the address space, start not null.
\* Two of them share a start, two overlap, two are disjoint.
Regions == {r \in {<<1, 2>>, <<1, 4>>, <<4, 2>>} : r[1] + r[2] <= AddrSpace}
\* The FaultHandler objects: JavaStackTraceHandler, and handlers whose
\* Action is defined outside fault_handler.cc.
JavaStackTrace == 0
Handlers == 0..MaxHandlers

VARIABLES
  generated_code_ranges_,       \* the head of the list (an atomic pointer)
  heap,                         \* node -> [st, start, size, next]
  generated_code_ranges_lock_,  \* the thread that holds the mutex, or NoThread
  initialized_,                 \* FaultManager::initialized_
  installed,                    \* art_fault_handler is in the signal chain
  generated_code_handlers_,     \* std::vector<FaultHandler*>
  other_handlers_,              \* std::vector<FaultHandler*>
  destroyed,                    \* handlers that have been deleted
  started,                      \* Runtime::IsStarted() && GetThreadList() != nullptr
  aborted,                      \* a CHECK or LOG(FATAL) has ended the process
  tmode,                        \* thread -> what Thread::Current() and its state are
  pc,                           \* thread -> where the thread is
  loc,                          \* thread -> the locals of the running function
  cpWait,                       \* thread -> threads its checkpoint still waits for
  log,                          \* thread -> the Action calls of the current dispatch
  snap,                         \* thread -> nodes linked when its walk loaded the head
  visited,                      \* thread -> nodes its current walk has read
  registered,                   \* region -> how often it is added and not removed
  rt                            \* the lookups before the latest Add, for the round trip

vars == <<generated_code_ranges_, heap, generated_code_ranges_lock_, initialized_,
          installed, generated_code_handlers_, other_handlers_, destroyed, started,
          aborted, tmode, pc, loc, cpWait, log, snap, visited, registered, rt>>

registry == <<generated_code_ranges_, heap, generated_code_ranges_lock_>>
handlers == <<generated_code_handlers_, other_handlers_, destroyed>>
lifecycle == <<initialized_, installed>>
walkghost == <<log, snap, visited>>
callghost == <<registered, rt>>

\* ------------------------------------------------------------ the state

\* struct FaultManager::GeneratedCodeRange, with the allocator's view of it:
\* "unalloc", "new" (allocated, not yet published), "linked", "unlinked"
\* (removed from the list, not yet deleted), "freed".
GeneratedCodeRange == [st : {"unalloc", "new", "linked", "unlinked", "freed"},
                       start : Addr, size : 0..AddrSpace, next : Nodes \cup {Null}]
NoRange == [st |-> "unalloc", start |-> 0, size |-> 0, next |-> Null]

\* What the current thread is: no Thread::Current() at all, attached but not
\* Runnable, Runnable without the mutator lock, Runnable holding the mutator
\* lock shared.
ThreadModes == {"detached", "native", "runnable_unlocked", "runnable"}
IsRunnable(t) == tmode[t] \in {"runnable_unlocked", "runnable"}

NoLocals == [start |-> 0, size |-> 0, range |-> Null, before |-> Null,
             new_range |-> Null, fault_pc |-> 0, in_gen |-> FALSE,
             caller |-> "none", idx |-> 0, ret |-> "none", marker |-> FALSE,
             dumped |-> FALSE, checkpoint |-> FALSE, handler |-> Null,
             prev |-> "idle"]

\* The record of an AddGeneratedCodeRange(s, n) that the same thread follows
\* at once by RemoveGeneratedCodeRange(s, n): the lookups before the add.
\* Phase "off": no record is kept.
NoRoundTrip == [owner |-> NoThread, phase |-> "none", start |-> 0, size |-> 0,
                view |-> {}]
RoundTripOff == [NoRoundTrip EXCEPT !.phase = "off"]

\* The nodes reachable from node n by next links, n included; the list is
\* acyclic, so MaxNodes steps reach its end.
RECURSIVE ChainFrom(_, _)
ChainFrom(n, fuel) ==
  IF n = Null \/ fuel = 0 THEN <<>>
  ELSE <<n>> \o ChainFrom(heap[n].next, fuel - 1)

\* The list as the sequence of its nodes, head first.
LinkedSeq == ChainFrom(generated_code_ranges_, MaxNodes)
Range(s) == {s[i] : i \in 1..Len(s)}
Linked == Range(LinkedSeq)

InFault(t) == pc[t] \in {"walk_load", "walk_visit", "dispatch_gen",
                         "dispatch_other", "jst_ret", "hf_return"}
InRemove(t) == pc[t] \in {"rm_lock", "rm_unlink", "rm_checkpoint", "rm_delete"}
InWriter(t) == pc[t] \in {"add_lock", "add_publish"} \/ InRemove(t)

\* FaultManager::FaultManager(): an empty list, no handler; no thread is in a
\* call.
Constructed ==
  /\ generated_code_ranges_ = Null
  /\ heap = [n \in Nodes |-> NoRange]
  /\ generated_code_ranges_lock_ = NoThread
  /\ generated_code_handlers_ = <<>>
  /\ other_handlers_ = <<>>
  /\ destroyed = {}
  /\ started = FALSE
  /\ aborted = FALSE
  /\ pc = [t \in Threads |-> "idle"]
  /\ loc = [t \in Threads |-> NoLocals]
  /\ cpWait = [t \in Threads |-> {}]
  /\ log = [t \in Threads |-> <<>>]
  /\ snap = [t \in Threads |-> {}]
  /\ visited = [t \in Threads |-> {}]
  /\ registered = [r \in Regions |-> 0]

\* The state after construction (initialized_(false), line 65), the
\* threads in any state.
Init ==
  /\ Constructed
  /\ initialized_ = FALSE
  /\ installed = FALSE
  /\ tmode \in [Threads -> ThreadModes]
  /\ rt = NoRoundTrip

\* A thread other than the one that creates the runtime runs only once the
\* runtime is started (fault_handler.cc:244-246: registration before that
\* happens while the process is single-threaded).
CanRun(t) == ~aborted /\ (t = MainThread \/ started)

ClearRoundTrip == IF rt.phase = "off" THEN rt ELSE NoRoundTrip

\* ------------------------------------------------------------ the walk

\* The range test with its upper bound included.
Hit_OffByOne(r, fault_pc) ==
  ((fault_pc - heap[r].start + AddrSpace) % AddrSpace) <= heap[r].size

\* fault_handler.cc:338: fault_pc - start < size in uintptr_t arithmetic.
Hit(r, fault_pc) == ((fault_pc - heap[r].start + AddrSpace) % AddrSpace) < heap[r].size

\* The loop of IsInGeneratedCode run to its end on the list as it stands.
RECURSIVE WalkFrom(_, _, _)
WalkFrom(range, fault_pc, fuel) ==
  IF range = Null \/ fuel = 0 THEN FALSE
  ELSE IF Hit(range, fault_pc) THEN TRUE
  ELSE WalkFrom(heap[range].next, fault_pc, fuel - 1)

\* The early returns without the test of the mutator lock.
CanClassify_NoLockCheck(mode, fault_pc) ==
  mode \in {"runnable_unlocked", "runnable"} /\ fault_pc # 0

\* The early returns of IsInGeneratedCode: a current thread, in state
\* Runnable, holding the mutator lock shared (tested, not taken), and a
\* fault PC.
CanClassify(mode, fault_pc) == mode = "runnable" /\ fault_pc # 0

\* IsInGeneratedCode as one function of the caller's mode, the fault PC and
\* the list as it stands.
IsInGeneratedCodeResult(mode, fault_pc) ==
  /\ CanClassify(mode, fault_pc)
  /\ WalkFrom(generated_code_ranges_, fault_pc, MaxNodes)

\* What a Runnable thread holding the mutator lock is answered, per address.
LookupView == {a \in Addr : IsInGeneratedCodeResult("runnable", a)}

\* ------------------------------------------------------------ the checkpoint

\* ThreadList::RunEmptyCheckpoint, requested by thread t: it waits for every
\* other thread that is Runnable.
CheckpointTargets(t) == {u \in Threads \ {t} : IsRunnable(u)}

\* A thread is at a suspend point: not in the signal handler, and not
\* waiting for or holding generated_code_ranges_lock_ (from the call of Add
\* or Remove to the release of the lock).
AtSuspendPoint(u) ==
  /\ ~InFault(u)
  /\ pc[u] \notin {"add_lock", "add_publish", "rm_lock", "rm_unlink", "rm_checkpoint"}

\* A thread has passed the checkpoint once it is at a suspend point.
PassCheckpoint(u) ==
  /\ ~aborted
  /\ \E t \in Threads : u \in cpWait[t]
  /\ AtSuspendPoint(u)
  /\ cpWait' = [t \in Threads |-> cpWait[t] \ {u}]
  /\ UNCHANGED <<registry, handlers, lifecycle, started, aborted, tmode, pc, loc,
                 walkghost, callghost>>

\* RunEmptyCheckpoint returns to thread t.
CheckpointDone(t) == cpWait[t] = {}

\* A thread changes its state (attach, detach, transitions to and from
\* Runnable) between operations; leaving or entering Runnable passes any
\* pending checkpoint.
SetThreadMode(t, m) ==
  /\ ~aborted
  /\ pc[t] = "idle"
  /\ m # tmode[t]
  /\ tmode' = [tmode EXCEPT ![t] = m]
  /\ cpWait' = [u \in Threads |-> cpWait[u] \ {t}]
  /\ UNCHANGED <<registry, handlers, lifecycle, started, aborted, pc, loc,
                 walkghost, callghost>>

\* Runtime::Start: from here on IsStarted() holds and there is a thread list.
StartRuntime ==
  /\ ~aborted
  /\ ~started
  /\ pc[MainThread] = "idle"
  /\ started' = TRUE
  /\ UNCHANGED <<registry, handlers, lifecycle, aborted, tmode, pc, loc, cpWait,
                 walkghost, callghost>>

\* ------------------------------------------------------------ the writers

OtherWriter(t) == \E u \in Threads \ {t} : InWriter(u)

\* new GeneratedCodeRange: the allocator hands out the lowest unused node.
NewNode == CHOOSE n \in Nodes : /\ heap[n].st = "unalloc"
                                /\ \A m \in Nodes : m < n => heap[m].st # "unalloc"

\* AddGeneratedCodeRange(start, size), line 230: the node is allocated.
AddGeneratedCodeRange(t, s, n) ==
  /\ CanRun(t)
  /\ pc[t] = "idle"
  /\ \E m \in Nodes : heap[m].st = "unalloc"
  /\ heap' = [heap EXCEPT ![NewNode] = [st |-> "new", start |-> s, size |-> n,
                                        next |-> Null]]
  /\ loc' = [loc EXCEPT ![t] = [NoLocals EXCEPT !.start = s, !.size = n,
                                                !.new_range = NewNode]]
  /\ pc' = [pc EXCEPT ![t] = "add_lock"]
  /\ rt' = IF rt.phase = "off" THEN rt
           ELSE IF OtherWriter(t) THEN NoRoundTrip
           ELSE [owner |-> t, phase |-> "adding", start |-> s, size |-> n,
                 view |-> LookupView]
  /\ UNCHANGED <<generated_code_ranges_, generated_code_ranges_lock_, handlers,
                 lifecycle, started, aborted, tmode, cpWait, walkghost, registered>>

\* An add that reads the head and writes the link without the lock.
Add_Lock_NoLock(t) ==
  /\ ~aborted
  /\ pc[t] = "add_lock"
  /\ generated_code_ranges_lock_' = t
  /\ loc' = [loc EXCEPT ![t].before = generated_code_ranges_]
  /\ heap' = [heap EXCEPT ![loc[t].new_range].next = generated_code_ranges_]
  /\ pc' = [pc EXCEPT ![t] = "add_publish"]
  /\ UNCHANGED <<generated_code_ranges_, handlers, lifecycle, started, aborted,
                 tmode, cpWait, walkghost, callghost>>

\* Lines 232-234: the lock is taken, old_head is loaded and stored to
\* new_range->next.  generated_code_ranges_ is written under the lock only,
\* so the load sees what the store of line 235 will replace.
Add_Lock(t) ==
  /\ ~aborted
  /\ pc[t] = "add_lock"
  /\ generated_code_ranges_lock_ = NoThread
  /\ generated_code_ranges_lock_' = t
  /\ loc' = [loc EXCEPT ![t].before = generated_code_ranges_]
  /\ heap' = [heap EXCEPT ![loc[t].new_range].next = generated_code_ranges_]
  /\ pc' = [pc EXCEPT ![t] = "add_publish"]
  /\ UNCHANGED <<generated_code_ranges_, handlers, lifecycle, started, aborted,
                 tmode, cpWait, walkghost, callghost>>

\* Lines 235-255: the store-release of new_range to generated_code_ranges_;
\* the lock is released, membarrier() is issued, the call returns.
Add_Publish(t) ==
  /\ ~aborted
  /\ pc[t] = "add_publish"
  /\ generated_code_ranges_' = loc[t].new_range
  /\ heap' = [heap EXCEPT ![loc[t].new_range].st = "linked"]
  /\ generated_code_ranges_lock_' = NoThread
  /\ pc' = [pc EXCEPT ![t] = "idle"]
  /\ registered' = [registered EXCEPT ![<<loc[t].start, loc[t].size>>] = @ + 1]
  /\ rt' = IF rt.owner = t /\ rt.phase = "adding" THEN [rt EXCEPT !.phase = "added"]
           ELSE rt
  /\ loc' = [loc EXCEPT ![t] = NoLocals]
  /\ UNCHANGED <<handlers, lifecycle, started, aborted, tmode, cpWait, walkghost>>

\* The first node at or after `range` whose start is s, with the link that
\* leads to it (Null for generated_code_ranges_ itself): lines 262-267.
RECURSIVE Search(_, _, _, _)
Search(before, range, s, fuel) ==
  IF range # Null /\ heap[range].start # s /\ fuel > 0
  THEN Search(range, heap[range].next, s, fuel - 1)
  ELSE <<before, range>>

\* RemoveGeneratedCodeRange(start, size), line 258.
RemoveGeneratedCodeRange(t, s, n) ==
  /\ CanRun(t)
  /\ pc[t] = "idle"
  /\ loc' = [loc EXCEPT ![t] = [NoLocals EXCEPT !.start = s, !.size = n]]
  /\ pc' = [pc EXCEPT ![t] = "rm_lock"]
  /\ rt' = IF rt.phase = "off" THEN rt
           ELSE IF /\ rt.owner = t /\ rt.phase = "added" /\ rt.start = s
                   /\ rt.size = n /\ ~OtherWriter(t)
           THEN [rt EXCEPT !.phase = "removing"]
           ELSE NoRoundTrip
  /\ UNCHANGED <<registry, handlers, lifecycle, started, aborted, tmode, cpWait,
                 walkghost, registered>>

\* Lines 261-267: the lock is taken and the list is searched for the node
\* whose start matches.  The links are written under the lock only, so the
\* search sees the list as it is when the lock is taken.
Rm_Lock(t) ==
  /\ ~aborted
  /\ pc[t] = "rm_lock"
  /\ generated_code_ranges_lock_ = NoThread
  /\ generated_code_ranges_lock_' = t
  /\ LET found == Search(Null, generated_code_ranges_, loc[t].start, MaxNodes)
     IN loc' = [loc EXCEPT ![t].before = found[1], ![t].range = found[2]]
  /\ pc' = [pc EXCEPT ![t] = "rm_unlink"]
  /\ UNCHANGED <<generated_code_ranges_, heap, handlers, lifecycle, started,
                 aborted, tmode, cpWait, walkghost, callghost>>

\* The CHECKs without the comparison of the sizes.
RemoveChecksPass_NoSize(t) == loc[t].range # Null

\* Lines 285-287: CHECK(range != nullptr) and CHECK_EQ(range->size, size).
RemoveChecksPass(t) ==
  /\ loc[t].range # Null
  /\ heap[loc[t].range].size = loc[t].size

\* A wrong unlink of the first node: the head is cleared.
UnlinkFromHead_DropTail(before, range) ==
  IF before = Null THEN Null ELSE generated_code_ranges_

\* Lines 268-283: the store that bypasses the found node, to the head when
\* the node is first and to its predecessor's next otherwise.
UnlinkFromHead(before, range) ==
  IF before = Null THEN heap[range].next ELSE generated_code_ranges_

\* Three wrong unlinks of a node: its own next is cleared; the predecessor
\* is left pointing at it; the predecessor's next is cleared.
UnlinkFromNodes_ClearNext(before, range) ==
  IF before = Null
  THEN [heap EXCEPT ![range].st = "unlinked", ![range].next = Null]
  ELSE [heap EXCEPT ![before].next = heap[range].next, ![range].st = "unlinked",
                    ![range].next = Null]
UnlinkFromNodes_NoBypass(before, range) ==
  [heap EXCEPT ![range].st = "unlinked"]
UnlinkFromNodes_Truncate(before, range) ==
  IF before = Null
  THEN [heap EXCEPT ![range].st = "unlinked"]
  ELSE [heap EXCEPT ![before].next = Null, ![range].st = "unlinked"]

\* An unlink that points the removed node back at the head of the list.
UnlinkFromNodes_NextToHead(before, range) ==
  IF before = Null
  THEN [heap EXCEPT ![range].st = "unlinked", ![range].next = generated_code_ranges_]
  ELSE [heap EXCEPT ![before].next = heap[range].next, ![range].st = "unlinked",
                    ![range].next = generated_code_ranges_]

\* Lines 268-283, the nodes after the store.
UnlinkFromNodes(before, range) ==
  IF before = Null
  THEN [heap EXCEPT ![range].st = "unlinked"]
  ELSE [heap EXCEPT ![before].next = heap[range].next, ![range].st = "unlinked"]

\* A removal that keeps the lock after the unlink.
LockAfterUnlink_Held(t) == t

\* Line 284: the MutexLock's scope ends after the unlink, before the CHECKs,
\* the checkpoint and the delete.
LockAfterUnlink(t) == NoThread

\* Lines 268-287: the found node is bypassed, its own next left as it is; the
\* lock is released; the CHECKs end the process when they fail.
Rm_Unlink(t) ==
  /\ ~aborted
  /\ pc[t] = "rm_unlink"
  /\ IF loc[t].range = Null
     THEN UNCHANGED <<generated_code_ranges_, heap>>
     ELSE /\ generated_code_ranges_' = UnlinkFromHead(loc[t].before, loc[t].range)
          /\ heap' = UnlinkFromNodes(loc[t].before, loc[t].range)
  /\ generated_code_ranges_lock_' = LockAfterUnlink(t)
  /\ IF RemoveChecksPass(t)
     THEN /\ pc' = [pc EXCEPT ![t] = "rm_checkpoint"]
          /\ UNCHANGED aborted
     ELSE /\ pc' = [pc EXCEPT ![t] = "rm_fatal"]
          /\ aborted' = TRUE
  /\ UNCHANGED <<handlers, lifecycle, started, tmode, loc, cpWait, walkghost,
                 callghost>>

\* The removal without its checkpoint.
NeedsCheckpoint_Never == FALSE

\* Line 291: runtime->IsStarted() && runtime->GetThreadList() != nullptr.
NeedsCheckpoint == started

\* Lines 289-298: RunEmptyCheckpoint is called when the runtime is started.
Rm_Checkpoint(t) ==
  /\ ~aborted
  /\ pc[t] = "rm_checkpoint"
  /\ cpWait' = [cpWait EXCEPT ![t] = IF NeedsCheckpoint THEN CheckpointTargets(t)
                                     ELSE {}]
  /\ loc' = [loc EXCEPT ![t].checkpoint = NeedsCheckpoint]
  /\ pc' = [pc EXCEPT ![t] = "rm_delete"]
  /\ UNCHANGED <<registry, handlers, lifecycle, started, aborted, tmode,
                 walkghost, callghost>>

\* Lines 298-300: RunEmptyCheckpoint, if called, has returned; delete range;
\* the call returns.
Rm_Delete(t) ==
  /\ ~aborted
  /\ pc[t] = "rm_delete"
  /\ CheckpointDone(t)
  /\ heap' = [heap EXCEPT ![loc[t].range].st = "freed"]
  /\ pc' = [pc EXCEPT ![t] = "idle"]
  /\ registered' = [registered EXCEPT ![<<loc[t].start, loc[t].size>>] = @ - 1]
  /\ rt' = IF rt.owner = t /\ rt.phase = "removing"
           THEN [rt EXCEPT !.phase = "removed"]
           ELSE rt
  /\ loc' = [loc EXCEPT ![t] = NoLocals]
  /\ UNCHANGED <<generated_code_ranges_, generated_code_ranges_lock_, handlers,
                 lifecycle, started, aborted, tmode, cpWait, walkghost>>

\* ------------------------------------------------------------ the fault path

NoDispatch == \A t \in Threads : ~InFault(t)

\* IsInGeneratedCode returns `result` to its caller: HandleFault (line 182)
\* or JavaStackTraceHandler::Action (line 457).
ReturnFromClassify(t, caller, fault_pc, result) ==
  IF caller = "HandleFault"
  THEN /\ loc' = [loc EXCEPT ![t].in_gen = result, ![t].range = Null,
                             ![t].caller = caller, ![t].fault_pc = fault_pc]
       /\ pc' = [pc EXCEPT ![t] = "dispatch_gen"]
  ELSE /\ loc' = [loc EXCEPT ![t].dumped = result, ![t].range = Null,
                             ![t].caller = caller, ![t].fault_pc = fault_pc]
       /\ pc' = [pc EXCEPT ![t] = "jst_ret"]

\* IsInGeneratedCode, lines 310-333, called by `caller`: the walk is begun,
\* or false is returned.  The thread reads only its own state here.
EnterIsInGeneratedCode(t, caller, fault_pc) ==
  /\ IF CanClassify(tmode[t], fault_pc)
     THEN /\ pc' = [pc EXCEPT ![t] = "walk_load"]
          /\ loc' = [loc EXCEPT ![t].caller = caller, ![t].fault_pc = fault_pc,
                                ![t].range = Null]
     ELSE ReturnFromClassify(t, caller, fault_pc, FALSE)
  /\ snap' = [snap EXCEPT ![t] = {}]
  /\ visited' = [visited EXCEPT ![t] = {}]

\* art_fault_handler -> HandleFault: the signal chain calls it, on the thread
\* that faulted, while the manager is installed; fault_pc is what GetFaultPc
\* reads from the context.  HandleFault calls IsInGeneratedCode (line 182).
HandleFault(t, fault_pc) ==
  /\ CanRun(t)
  /\ pc[t] = "idle"
  /\ installed
  /\ EnterIsInGeneratedCode(t, "HandleFault", fault_pc)
  /\ log' = [log EXCEPT ![t] = <<>>]
  /\ rt' = ClearRoundTrip
  /\ UNCHANGED <<registry, handlers, lifecycle, started, aborted, tmode, cpWait,
                 registered>>

\* A walk that takes generated_code_ranges_lock_ to load the head.
Walk_Load_Locked(t) ==
  /\ ~aborted
  /\ pc[t] = "walk_load"
  /\ generated_code_ranges_lock_ = NoThread
  /\ snap' = [snap EXCEPT ![t] = Linked]
  /\ IF generated_code_ranges_ = Null
     THEN ReturnFromClassify(t, loc[t].caller, loc[t].fault_pc, FALSE)
     ELSE /\ loc' = [loc EXCEPT ![t].range = generated_code_ranges_]
          /\ pc' = [pc EXCEPT ![t] = "walk_visit"]
  /\ UNCHANGED <<registry, handlers, lifecycle, started, aborted, tmode, cpWait,
                 log, visited, callghost>>

\* Line 336: the load-acquire of generated_code_ranges_.
Walk_Load(t) ==
  /\ ~aborted
  /\ pc[t] = "walk_load"
  /\ snap' = [snap EXCEPT ![t] = Linked]
  /\ IF generated_code_ranges_ = Null
     THEN ReturnFromClassify(t, loc[t].caller, loc[t].fault_pc, FALSE)
     ELSE /\ loc' = [loc EXCEPT ![t].range = generated_code_ranges_]
          /\ pc' = [pc EXCEPT ![t] = "walk_visit"]
  /\ UNCHANGED <<registry, handlers, lifecycle, started, aborted, tmode, cpWait,
                 log, visited, callghost>>

\* What reading node r gives: its fields, or anything once it is deleted.
HitRead(r, fault_pc) ==
  IF heap[r].st = "freed" THEN BOOLEAN ELSE {Hit(r, fault_pc)}
NextRead(r) ==
  IF heap[r].st = "freed" THEN Nodes \cup {Null} ELSE {heap[r].next}

\* Lines 337-350, one iteration: the node is tested, then its next is loaded.
Walk_Visit(t) ==
  /\ ~aborted
  /\ pc[t] = "walk_visit"
  /\ visited' = [visited EXCEPT ![t] = @ \cup {loc[t].range}]
  /\ \E hit \in HitRead(loc[t].range, loc[t].fault_pc) :
     \E next \in NextRead(loc[t].range) :
       IF hit THEN ReturnFromClassify(t, loc[t].caller, loc[t].fault_pc, TRUE)
       ELSE IF next = Null
       THEN ReturnFromClassify(t, loc[t].caller, loc[t].fault_pc, FALSE)
       ELSE /\ loc' = [loc EXCEPT ![t].range = next]
            /\ UNCHANGED pc
  /\ UNCHANGED <<registry, handlers, lifecycle, started, aborted, tmode, cpWait,
                 log, snap, callghost>>

\* A loop over the handlers that does not stop at the handler that claims.
DispatchRuns_NoShortCircuit(hs) ==
  {[calls |-> [i \in 1..Len(hs) |-> [handler |-> hs[i], claimed |-> FALSE]],
    claimed |-> FALSE]}
  \cup
  {[calls |-> [i \in 1..Len(hs) |-> [handler |-> hs[i], claimed |-> (i = k)]],
    claimed |-> TRUE] : k \in 1..Len(hs)}

\* The ways a loop over the handlers hs can run: every handler declines, or
\* the handlers before position k decline and the one at k claims.  The
\* Action of a handler other than JavaStackTraceHandler is not in this file;
\* it may return either.
DispatchRuns(hs) ==
  {[calls |-> [i \in 1..k |-> [handler |-> hs[i], claimed |-> FALSE]],
    claimed |-> FALSE] : k \in {Len(hs)}}
  \cup
  {[calls |-> [i \in 1..k |-> [handler |-> hs[i], claimed |-> (i = k)]],
    claimed |-> TRUE] : k \in 1..Len(hs)}

\* The generated code handlers consulted for every fault.
HandlersForFault_Always(in_gen) == generated_code_handlers_

\* Lines 182-184: the generated code handlers are consulted only for a fault
\* in generated code.
HandlersForFault(in_gen) == IF in_gen THEN generated_code_handlers_ ELSE <<>>

\* An unhandled fault that does not reach the marker function.
Unhandled_NoMarker(t) == [loc EXCEPT ![t].ret = "unclaimed"]

\* Lines 201-203: art_sigsegv_fault() is called and false is returned.
Unhandled(t) == [loc EXCEPT ![t].ret = "unclaimed", ![t].marker = TRUE]

\* HandleFault, lines 182-192: the generated code handlers, when the fault
\* is in generated code; then the entry of HandleFaultByOtherHandlers, which
\* returns false at once when there is no other handler (line 132).
Dispatch_Gen(t) ==
  /\ ~aborted
  /\ pc[t] = "dispatch_gen"
  /\ \E run \in DispatchRuns(HandlersForFault(loc[t].in_gen)) :
       /\ log' = [log EXCEPT ![t] = @ \o run.calls]
       /\ IF run.claimed
          THEN /\ loc' = [loc EXCEPT ![t].ret = "claimed"]
               /\ pc' = [pc EXCEPT ![t] = "hf_return"]
          ELSE IF other_handlers_ = <<>>
          THEN /\ loc' = Unhandled(t)
               /\ pc' = [pc EXCEPT ![t] = "hf_return"]
          ELSE /\ loc' = [loc EXCEPT ![t].idx = 1]
               /\ pc' = [pc EXCEPT ![t] = "dispatch_other"]
  /\ UNCHANGED <<registry, handlers, lifecycle, started, aborted, tmode, cpWait,
                 snap, visited, callghost>>

\* The loop of HandleFaultByOtherHandlers, lines 141-146, one handler per
\* step, and lines 197-203 of HandleFault once it has returned.
Dispatch_Other(t) ==
  /\ ~aborted
  /\ pc[t] = "dispatch_other"
  /\ IF loc[t].idx > Len(other_handlers_)
     THEN \* no handler claimed: art_sigsegv_fault(), return false
          /\ loc' = Unhandled(t)
          /\ pc' = [pc EXCEPT ![t] = "hf_return"]
          /\ UNCHANGED <<log, snap, visited>>
     ELSE IF other_handlers_[loc[t].idx] = JavaStackTrace
     THEN \* JavaStackTraceHandler::Action calls IsInGeneratedCode
          /\ EnterIsInGeneratedCode(t, "JavaStackTraceHandler", loc[t].fault_pc)
          /\ UNCHANGED log
     ELSE \E claimed \in BOOLEAN :
          /\ log' = [log EXCEPT ![t] = Append(@, [handler |-> other_handlers_[loc[t].idx],
                                                   claimed |-> claimed])]
          /\ IF claimed
             THEN /\ loc' = [loc EXCEPT ![t].ret = "claimed"]
                  /\ pc' = [pc EXCEPT ![t] = "hf_return"]
             ELSE /\ loc' = [loc EXCEPT ![t].idx = @ + 1]
                  /\ UNCHANGED pc
          /\ UNCHANGED <<snap, visited>>
  /\ UNCHANGED <<registry, handlers, lifecycle, started, aborted, tmode, cpWait,
                 callghost>>

\* A JavaStackTraceHandler that claims the faults it dumps a stack for.
JavaStackTraceResult_Dumped(dumped) == dumped

\* Line 469: return false, whether or not the stack was dumped.
JavaStackTraceResult(dumped) == FALSE

\* What GetFaultSp reads from the context: null or a frame.
FaultSps == 0..1

\* JavaStackTraceHandler::Action, lines 458-469: when the fault is in
\* generated code the stack is dumped, after CHECK_NE(sp, 0u); the loop of
\* HandleFaultByOtherHandlers goes on with what Action returns.
JavaStackTraceHandler_Action(t) ==
  /\ ~aborted
  /\ pc[t] = "jst_ret"
  /\ \E sp \in (IF loc[t].dumped THEN FaultSps ELSE {1}) :
       IF sp = 0
       THEN /\ aborted' = TRUE
            /\ pc' = [pc EXCEPT ![t] = "jst_fatal"]
            /\ UNCHANGED <<loc, log>>
       ELSE LET claimed == JavaStackTraceResult(loc[t].dumped)
            IN /\ log' = [log EXCEPT ![t] = Append(@, [handler |-> JavaStackTrace,
                                                       claimed |-> claimed])]
               /\ IF claimed
                  THEN /\ loc' = [loc EXCEPT ![t].ret = "claimed",
                                             ![t].caller = "HandleFault"]
                       /\ pc' = [pc EXCEPT ![t] = "hf_return"]
                  ELSE /\ loc' = [loc EXCEPT ![t].idx = @ + 1,
                                             ![t].caller = "HandleFault"]
                       /\ pc' = [pc EXCEPT ![t] = "dispatch_other"]
               /\ UNCHANGED aborted
  /\ UNCHANGED <<registry, handlers, lifecycle, started, tmode, cpWait, snap,
                 visited, callghost>>

\* HandleFault returns to the signal chain.
HandleFault_Return(t) ==
  /\ ~aborted
  /\ pc[t] = "hf_return"
  /\ pc' = [pc EXCEPT ![t] = "idle"]
  /\ loc' = [loc EXCEPT ![t] = NoLocals]
  /\ log' = [log EXCEPT ![t] = <<>>]
  /\ snap' = [snap EXCEPT ![t] = {}]
  /\ visited' = [visited EXCEPT ![t] = {}]
  /\ UNCHANGED <<registry, handlers, lifecycle, started, aborted, tmode, cpWait,
                 callghost>>

\* ------------------------------------------------------------ the lifecycle

\* Where the runtime's thread is after a call of Init, Release, Shutdown,
\* AddHandler or RemoveHandler has returned and before it does anything else.
ReturnedPcs == {"init_ret", "release_ret", "shutdown_ret", "addhandler_ret",
                "removehandler_ret"}

\* The handler lists are changed, and the manager is set up and torn down, by
\* the runtime outside signal context and not while a fault is dispatched.
RuntimeCall ==
  /\ ~aborted
  /\ pc[MainThread] \in {"idle"} \cup ReturnedPcs
  /\ NoDispatch

\* The runtime's thread is at position p of a call with argument h; it
\* remembers where it was before.
RuntimeAt(p, h) ==
  /\ pc' = [pc EXCEPT ![MainThread] = p]
  /\ loc' = [loc EXCEPT ![MainThread] = [NoLocals EXCEPT !.prev = pc[MainThread],
                                                        !.handler = h]]

\* The runtime's thread goes on to other work.
RuntimeCall_Return ==
  /\ ~aborted
  /\ pc[MainThread] \in ReturnedPcs
  /\ pc' = [pc EXCEPT ![MainThread] = "idle"]
  /\ loc' = [loc EXCEPT ![MainThread] = NoLocals]
  /\ UNCHANGED <<registry, handlers, lifecycle, started, aborted, tmode, cpWait,
                 walkghost, callghost>>

\* An Init that does not look at initialized_.
InitChecksPass_Always == TRUE

\* Line 73: CHECK(!initialized_).
InitChecksPass == ~initialized_

\* FaultManager::Init, lines 72-98.
FaultManager_Init ==
  /\ RuntimeCall
  /\ IF InitChecksPass
     THEN /\ installed' = TRUE
          /\ initialized_' = TRUE
          /\ RuntimeAt("init_ret", Null)
          /\ UNCHANGED aborted
     ELSE /\ aborted' = TRUE
          /\ RuntimeAt("init_fatal", Null)
          /\ UNCHANGED lifecycle
  /\ rt' = ClearRoundTrip
  /\ UNCHANGED <<registry, handlers, started, tmode, cpWait, walkghost, registered>>

\* A Release that leaves initialized_ set.
Released_KeepsFlag == [installed |-> FALSE, initialized_ |-> TRUE]

\* Lines 102-103: RemoveSpecialSignalHandlerFn, initialized_ = false.
Released == [installed |-> FALSE, initialized_ |-> FALSE]

\* FaultManager::Release, lines 100-105.
Release ==
  /\ RuntimeCall
  /\ IF initialized_
     THEN /\ installed' = Released.installed
          /\ initialized_' = Released.initialized_
     ELSE UNCHANGED lifecycle
  /\ RuntimeAt("release_ret", Null)
  /\ rt' = ClearRoundTrip
  /\ UNCHANGED <<registry, handlers, started, aborted, tmode, cpWait, walkghost,
                 registered>>

\* FaultManager::AddHandler, lines 206-213.  JavaStackTraceHandler registers
\* itself as an other handler (line 452).
AddHandler(handler, generated_code) ==
  /\ RuntimeCall
  /\ initialized_
  /\ handler \notin destroyed
  /\ handler \notin Range(generated_code_handlers_) \cup Range(other_handlers_)
  /\ handler = JavaStackTrace => ~generated_code
  /\ IF generated_code
     THEN /\ generated_code_handlers_' = Append(generated_code_handlers_, handler)
          /\ UNCHANGED other_handlers_
     ELSE /\ other_handlers_' = Append(other_handlers_, handler)
          /\ UNCHANGED generated_code_handlers_
  /\ RuntimeAt("addhandler_ret", handler)
  /\ rt' = ClearRoundTrip
  /\ UNCHANGED <<registry, lifecycle, destroyed, started, aborted, tmode, cpWait,
                 walkghost, registered>>

\* An erase that moves the last element into the place of h.
Erase_SwapWithLast(hs, h) ==
  LET i == CHOOSE j \in 1..Len(hs) : hs[j] = h /\ \A k \in 1..(j - 1) : hs[k] # h
  IN [j \in 1..(Len(hs) - 1) |-> IF j = i THEN hs[Len(hs)] ELSE hs[j]]

\* std::vector::erase at the first position that holds h.
Erase(hs, h) ==
  LET i == CHOOSE j \in 1..Len(hs) : hs[j] = h /\ \A k \in 1..(j - 1) : hs[k] # h
  IN SubSeq(hs, 1, i - 1) \o SubSeq(hs, i + 1, Len(hs))

\* FaultManager::RemoveHandler, lines 215-227.
RemoveHandler(handler) ==
  /\ RuntimeCall
  /\ IF handler \in Range(generated_code_handlers_)
     THEN /\ generated_code_handlers_' = Erase(generated_code_handlers_, handler)
          /\ RuntimeAt("removehandler_ret", handler)
          /\ UNCHANGED <<other_handlers_, aborted>>
     ELSE IF handler \in Range(other_handlers_)
     THEN /\ other_handlers_' = Erase(other_handlers_, handler)
          /\ RuntimeAt("removehandler_ret", handler)
          /\ UNCHANGED <<generated_code_handlers_, aborted>>
     ELSE /\ aborted' = TRUE
          /\ RuntimeAt("removehandler_fatal", handler)
          /\ UNCHANGED <<generated_code_handlers_, other_handlers_>>
  /\ rt' = ClearRoundTrip
  /\ UNCHANGED <<registry, lifecycle, destroyed, started, tmode, cpWait, walkghost,
                 registered>>

\* A Shutdown that does not look at initialized_.
ShutdownRuns_Always == TRUE

\* Line 108: if (initialized_).
ShutdownRuns == initialized_

\* A Shutdown that leaves the entry point in the signal chain.
ShutdownReleased_Installed == [installed |-> TRUE, initialized_ |-> FALSE]

\* Line 109: Release() is the first thing Shutdown does.
ShutdownReleased == Released

\* Where the runtime's thread is inside Shutdown, after Release().
ShutdownPcs == {"sd_handlers", "sd_ranges", "sd_delete"}

\* FaultManager::Shutdown, lines 107-110: nothing on a manager that is not
\* initialized; otherwise Release(), and the rest follows.
Shutdown ==
  /\ RuntimeCall
  /\ IF ShutdownRuns
     THEN /\ installed' = ShutdownReleased.installed
          /\ initialized_' = ShutdownReleased.initialized_
          /\ RuntimeAt("sd_handlers", Null)
     ELSE /\ UNCHANGED lifecycle
          /\ RuntimeAt("shutdown_ret", Null)
  /\ rt' = ClearRoundTrip
  /\ UNCHANGED <<registry, handlers, started, aborted, tmode, cpWait, walkghost,
                 registered>>

\* Lines 112-113: STLDeleteElements on both handler sequences deletes the
\* handlers and clears the sequences.
Shutdown_Handlers ==
  /\ ~aborted
  /\ pc[MainThread] = "sd_handlers"
  /\ destroyed' = destroyed \cup Range(generated_code_handlers_)
                            \cup Range(other_handlers_)
  /\ generated_code_handlers_' = <<>>
  /\ other_handlers_' = <<>>
  /\ pc' = [pc EXCEPT ![MainThread] = "sd_ranges"]
  /\ UNCHANGED <<registry, lifecycle, started, aborted, tmode, loc, cpWait,
                 walkghost, callghost>>

\* Lines 116-121: under the lock, the head is loaded into a local and
\* nullptr is stored in its place.
Shutdown_Ranges ==
  /\ ~aborted
  /\ pc[MainThread] = "sd_ranges"
  /\ generated_code_ranges_lock_ = NoThread
  /\ loc' = [loc EXCEPT ![MainThread].range = generated_code_ranges_]
  /\ generated_code_ranges_' = Null
  /\ registered' = [r \in Regions |-> 0]
  /\ pc' = [pc EXCEPT ![MainThread] = "sd_delete"]
  /\ UNCHANGED <<heap, generated_code_ranges_lock_, handlers, lifecycle, started,
                 aborted, tmode, cpWait, walkghost, rt>>

\* Lines 123-127: every node of the chain from the local is deleted; no
\* checkpoint is run; Shutdown returns.
Shutdown_Delete ==
  /\ ~aborted
  /\ pc[MainThread] = "sd_delete"
  /\ heap' = [n \in Nodes |->
               IF n \in Range(ChainFrom(loc[MainThread].range, MaxNodes))
               THEN [heap[n] EXCEPT !.st = "freed"]
               ELSE heap[n]]
  /\ loc' = [loc EXCEPT ![MainThread].range = Null]
  /\ pc' = [pc EXCEPT ![MainThread] = "shutdown_ret"]
  /\ UNCHANGED <<generated_code_ranges_, generated_code_ranges_lock_, handlers,
                 lifecycle, started, aborted, tmode, cpWait, walkghost, callghost>>

\* ------------------------------------------------------------ specifications

\* AddGeneratedCodeRange and RemoveGeneratedCodeRange on thread t, called
\* with the regions R.
RegistryStep(t, R) ==
  \/ \E r \in R : AddGeneratedCodeRange(t, r[1], r[2])
  \/ Add_Lock(t)
  \/ Add_Publish(t)
  \/ \E r \in R : RemoveGeneratedCodeRange(t, r[1], r[2])
  \/ Rm_Lock(t)
  \/ Rm_Unlink(t)
  \/ Rm_Checkpoint(t)
  \/ Rm_Delete(t)

\* A fault taken by thread t at one of the addresses A while no other
\* handler is registered, up to the return of HandleFault.
WalkStep(t, A) ==
  \/ \E a \in A : HandleFault(t, a)
  \/ Walk_Load(t)
  \/ Walk_Visit(t)
  \/ Dispatch_Gen(t)
  \/ HandleFault_Return(t)

\* The same with other handlers.
FaultStep(t, A) ==
  \/ WalkStep(t, A)
  \/ Dispatch_Other(t)
  \/ JavaStackTraceHandler_Action(t)

Lifecycle ==
  \/ FaultManager_Init
  \/ Release
  \/ Shutdown
  \/ Shutdown_Handlers
  \/ Shutdown_Ranges
  \/ Shutdown_Delete
  \/ \E h \in Handlers : \E g \in BOOLEAN : AddHandler(h, g)
  \/ \E h \in Handlers : RemoveHandler(h)
  \/ RuntimeCall_Return

\* Everything the program can do.
Next ==
  \/ \E t \in Threads : RegistryStep(t, Regions)
  \/ \E t \in Threads : FaultStep(t, Addr)
  \/ \E u \in Threads : PassCheckpoint(u)
  \/ \E u \in Threads : \E m \in ThreadModes : SetThreadMode(u, m)
  \/ StartRuntime
  \/ Lifecycle

Spec == Init /\ [][Next]_vars

\* The manager after Init(), with no handler registered.
Installed ==
  /\ Constructed
  /\ initialized_ = TRUE
  /\ installed = TRUE

\* The registry under concurrent writers and a concurrent walk: one thread
\* adds two disjoint regions, it and a second thread remove them, and a
\* third takes faults inside and outside them.  The faulting thread is
\* Runnable and holds the mutator lock; the writers are attached and not
\* Runnable, so a checkpoint waits for the faulting thread alone.
Writers == {"main", "jit"}
Walker == "mutator"
ConcurrentRegions == {<<1, 2>>, <<4, 2>>}
ConcurrentPcs == {2, 7}

InitConcurrent ==
  /\ Installed
  /\ tmode = [t \in Threads |-> IF t = Walker THEN "runnable" ELSE "native"]
  /\ rt = RoundTripOff

\* The callers unregister a region once per registration.
Removing(r) == {t \in Threads : InRemove(t) /\ <<loc[t].start, loc[t].size>> = r}
MayRemove(r) == registered[r] > Cardinality(Removing(r))

NextConcurrent ==
  \/ \E r \in ConcurrentRegions : AddGeneratedCodeRange(MainThread, r[1], r[2])
  \/ Add_Lock(MainThread)
  \/ Add_Publish(MainThread)
  \/ \E t \in Writers : \E r \in ConcurrentRegions :
       MayRemove(r) /\ RemoveGeneratedCodeRange(t, r[1], r[2])
  \/ \E t \in Writers : Rm_Lock(t)
  \/ \E t \in Writers : Rm_Unlink(t)
  \/ \E t \in Writers : Rm_Checkpoint(t)
  \/ \E t \in Writers : Rm_Delete(t)
  \/ \E a \in ConcurrentPcs : HandleFault(Walker, a)
  \/ Walk_Load(Walker)
  \/ Walk_Visit(Walker)
  \/ Dispatch_Gen(Walker)
  \/ HandleFault_Return(Walker)
  \/ PassCheckpoint(Walker)
  \/ StartRuntime

SpecConcurrent == InitConcurrent /\ [][NextConcurrent]_vars

\* The writers alone: two threads add and remove two regions; no thread is
\* Runnable, so a checkpoint has nobody to wait for.
InitWriters ==
  /\ Installed
  /\ tmode = [t \in Threads |-> "native"]
  /\ rt = RoundTripOff

NextWriters ==
  \/ \E t \in Writers : \E r \in ConcurrentRegions :
       AddGeneratedCodeRange(t, r[1], r[2])
  \/ \E t \in Writers : Add_Lock(t)
  \/ \E t \in Writers : Add_Publish(t)
  \/ \E t \in Writers : \E r \in ConcurrentRegions :
       MayRemove(r) /\ RemoveGeneratedCodeRange(t, r[1], r[2])
  \/ \E t \in Writers : Rm_Lock(t)
  \/ \E t \in Writers : Rm_Unlink(t)
  \/ \E t \in Writers : Rm_Checkpoint(t)
  \/ \E t \in Writers : Rm_Delete(t)
  \/ StartRuntime

SpecWriters == InitWriters /\ [][NextWriters]_vars

\* The writers as Runnable threads: a remover's checkpoint waits for the
\* other writer, which passes it only at a suspend point.
InitRunnableWriters ==
  /\ Installed
  /\ tmode = [t \in Threads |-> IF t \in Writers THEN "runnable" ELSE "native"]
  /\ rt = RoundTripOff

NextRunnableWriters ==
  \/ NextWriters
  \/ \E u \in Writers : PassCheckpoint(u)

SpecRunnableWriters == InitRunnableWriters /\ [][NextRunnableWriters]_vars

\* A thread that is inside Add or Remove, or is asked to pass a checkpoint,
\* takes its next step when that step is possible; no fairness between the
\* threads that wait for the lock is assumed.
WriterStep(t) ==
  \/ Add_Lock(t)
  \/ Add_Publish(t)
  \/ Rm_Lock(t)
  \/ Rm_Unlink(t)
  \/ Rm_Checkpoint(t)
  \/ Rm_Delete(t)
  \/ PassCheckpoint(t)
FairWriters == \A t \in Writers : WF_vars(WriterStep(t))
SpecRunnableWritersFair == SpecRunnableWriters /\ FairWriters

\* The same where the faulting thread keeps running: a signal handler that
\* has been entered is not left waiting forever.
FairWalk ==
  /\ WF_vars(Walk_Load(Walker))
  /\ WF_vars(Walk_Visit(Walker))

SpecConcurrentFair == SpecConcurrent /\ FairWalk

\* The registry called from one thread, in any thread state, while the
\* other threads stay Runnable and pass checkpoints.
InitSequential ==
  /\ Installed
  /\ tmode \in {m \in [Threads -> ThreadModes] :
                  \A t \in Threads \ {MainThread} : m[t] = "runnable"}
  /\ rt = NoRoundTrip

NextSequential ==
  \/ RegistryStep(MainThread, Regions)
  \/ WalkStep(MainThread, Addr)
  \/ \E u \in Threads : PassCheckpoint(u)
  \/ \E m \in ThreadModes : SetThreadMode(MainThread, m)
  \/ StartRuntime

SpecSequential == InitSequential /\ [][NextSequential]_vars

\* The dispatch of faults to the handlers, with the lifecycle calls, from one
\* Runnable thread: one region is registered, the faults are inside and
\* outside it.
DispatchRegions == {<<1, 2>>}
DispatchPcs == {2, 7}

InitDispatch ==
  /\ Constructed
  /\ initialized_ = FALSE
  /\ installed = FALSE
  /\ tmode = [t \in Threads |-> "runnable"]
  /\ rt = RoundTripOff

NextDispatch ==
  \/ \E r \in DispatchRegions : AddGeneratedCodeRange(MainThread, r[1], r[2])
  \/ Add_Lock(MainThread)
  \/ Add_Publish(MainThread)
  \/ FaultStep(MainThread, DispatchPcs)
  \/ Lifecycle

SpecDispatch == InitDispatch /\ [][NextDispatch]_vars

\* Set up and torn down by the runtime's thread while another thread takes
\* faults: the runtime's thread registers handlers and a region and calls
\* Init, Release and Shutdown; the other thread's faults are dispatched.
ShutdownHandlers == {JavaStackTrace, 1}
NextShutdown ==
  \/ \E r \in DispatchRegions : AddGeneratedCodeRange(MainThread, r[1], r[2])
  \/ Add_Lock(MainThread)
  \/ Add_Publish(MainThread)
  \/ FaultStep(Walker, DispatchPcs)
  \/ FaultManager_Init
  \/ Release
  \/ Shutdown
  \/ Shutdown_Handlers
  \/ Shutdown_Ranges
  \/ Shutdown_Delete
  \/ \E h \in ShutdownHandlers : \E g \in BOOLEAN : AddHandler(h, g)
  \/ RuntimeCall_Return
  \/ StartRuntime

SpecShutdown == InitDispatch /\ [][NextShutdown]_vars

\* ------------------------------------------------------------ properties

\* Address a lies in a region that has been added and not yet removed, by
\* the count of the calls that have returned.
InRegistered(a) ==
  \E r \in Regions : registered[r] > 0 /\ r[1] <= a /\ a < r[1] + r[2]

\* IsInGeneratedCode, called by HandleFault, has just returned to thread t.
Classified(t) == pc[t] = "dispatch_gen"

\* C1 as stated: with no Add or Remove in progress, IsInGeneratedCode
\* called for fault PC a returns true exactly when a lies in a range that
\* has been added and not yet removed, whatever thread calls it.
C1_AnyCaller ==
  Classified(MainThread) =>
    (loc[MainThread].in_gen <=> InRegistered(loc[MainThread].fault_pc))

\* C1, amended: with no Add or Remove in progress, IsInGeneratedCode called
\* for fault PC a returns true exactly when the calling thread is attached,
\* Runnable and holds the mutator lock shared, a is not null, and a lies in
\* a range that has been added and not yet removed.
C1_Lookup ==
  Classified(MainThread) =>
    (loc[MainThread].in_gen <=>
       /\ tmode[MainThread] = "runnable"
       /\ loc[MainThread].fault_pc # 0
       /\ InRegistered(loc[MainThread].fault_pc))

\* A lookup that walked past a node that does not cover the PC and found it
\* in a later one, after one range has been removed.
C1_Witness ==
  /\ Classified(MainThread)
  /\ loc[MainThread].in_gen
  /\ Cardinality(visited[MainThread]) >= 2
  /\ \E n \in Nodes : heap[n].st = "freed"

\* C2: a walk that runs while ranges are added and removed still reaches
\* every node that was linked when it loaded the head and is still linked:
\* while it runs, each such node is already visited or lies ahead of the
\* node it stands on, unlinked or not; when it ends without a hit, each has
\* been visited; and a PC inside such a node is classified in-range.
C2_WalkReachesLiveNodes ==
  \A t \in Threads : \A r \in snap[t] :
    heap[r].st = "linked" =>
      /\ pc[t] = "walk_visit" =>
           r \in visited[t] \cup Range(ChainFrom(loc[t].range, MaxNodes))
      /\ Classified(t) =>
           /\ loc[t].in_gen \/ r \in visited[t]
           /\ Hit(r, loc[t].fault_pc) => loc[t].in_gen

\* The walk stands on an unlinked node whose next is unlinked as well, and a
\* node that is still linked lies behind the two.
C2_Witness ==
  /\ pc[Walker] = "walk_visit"
  /\ heap[loc[Walker].range].st = "unlinked"
  /\ LET n == heap[loc[Walker].range].next
     IN /\ n # Null
        /\ heap[n].st = "unlinked"
        /\ heap[n].next # Null
        /\ heap[heap[n].next].st = "linked"
        /\ heap[n].next \in snap[Walker] \ visited[Walker]

\* C3: once the runtime is started a walk never reads a deleted node: no
\* node that was linked when a walk loaded the head is deleted before the
\* fault handler that runs the walk has returned, and the node a walk stands
\* on is one of them.
C3_NoFreedRead ==
  started =>
    \A t \in Threads :
      /\ InFault(t) => \A n \in snap[t] : heap[n].st # "freed"
      /\ pc[t] = "walk_visit" =>
           /\ loc[t].range \in snap[t]
           /\ heap[loc[t].range].st # "freed"

\* A remover has unlinked the node the walk stands on and waits in its
\* checkpoint for the walking thread.
C3_Witness ==
  \E w \in Writers :
    /\ pc[w] = "rm_delete"
    /\ loc[w].checkpoint
    /\ Walker \in cpWait[w]
    /\ pc[Walker] = "walk_visit"
    /\ loc[Walker].range = loc[w].range
    /\ heap[loc[w].range].st = "unlinked"

\* HandleFault on thread t is past its loop over the generated code handlers.
PastGen(t) ==
  \/ pc[t] \in {"dispatch_other", "jst_ret", "hf_return"}
  \/ pc[t] \in {"walk_load", "walk_visit"} /\ loc[t].caller = "JavaStackTraceHandler"

\* C4: for a fault classified as in generated code the generated code
\* handlers are consulted in the order of their registration; the loop
\* stops at the first that claims the fault, no handler after it and no
\* other handler is consulted, and HandleFault returns "claimed"; when none
\* claims, all of them have been consulted.
C4_GeneratedHandlersInOrder ==
  \A t \in Threads :
    PastGen(t) /\ loc[t].in_gen =>
      LET G == generated_code_handlers_
          L == log[t]
      IN /\ \A i \in 1..Len(L) : i <= Len(G) => L[i].handler = G[i]
         /\ IF \E i \in 1..Len(L) : i <= Len(G) /\ L[i].claimed
            THEN /\ L[Len(L)].claimed
                 /\ \A i \in 1..(Len(L) - 1) : ~L[i].claimed
                 /\ Len(L) <= Len(G)
                 /\ pc[t] = "hf_return"
                 /\ loc[t].ret = "claimed"
            ELSE Len(L) >= Len(G)

\* Two generated code handlers and another handler are registered; the
\* first declined, the second claimed, HandleFault is about to return.
C4_Witness ==
  /\ pc[MainThread] = "hf_return"
  /\ loc[MainThread].in_gen
  /\ Len(generated_code_handlers_) = 2
  /\ other_handlers_ # <<>>
  /\ log[MainThread] = <<[handler |-> generated_code_handlers_[1], claimed |-> FALSE],
                         [handler |-> generated_code_handlers_[2], claimed |-> TRUE]>>
  /\ loc[MainThread].ret = "claimed"

\* C5: for a fault whose PC lies outside every registered range no
\* generated code handler is consulted; the handlers consulted are those
\* of the other list, in its order.
C5_OutOfRangeSkipsGenerated ==
  \A t \in Threads :
    PastGen(t) /\ ~InRegistered(loc[t].fault_pc) =>
      \A i \in 1..Len(log[t]) :
        /\ log[t][i].handler \notin Range(generated_code_handlers_)
        /\ i <= Len(other_handlers_)
        /\ log[t][i].handler = other_handlers_[i]

\* A range and a generated code handler are registered, the fault PC is
\* outside the range, and another handler has been consulted.
C5_Witness ==
  /\ pc[MainThread] = "hf_return"
  /\ loc[MainThread].fault_pc # 0
  /\ ~InRegistered(loc[MainThread].fault_pc)
  /\ \E r \in Regions : registered[r] > 0
  /\ generated_code_handlers_ # <<>>
  /\ log[MainThread] # <<>>

\* C6, the answer: IsInGeneratedCode returns false, without reading the
\* list, when the thread is detached, is not Runnable, or does not hold the
\* mutator lock shared.
C6_State ==
  \A t \in Threads :
    Classified(t) /\ tmode[t] # "runnable" =>
      ~loc[t].in_gen /\ visited[t] = {} /\ snap[t] = {}

\* C6, the lock: what the thread is and holds does not change from the
\* entry of the fault handler to its return.
C6_Action ==
  \A t \in Threads : InFault(t) \/ InFault(t)' => tmode'[t] = tmode[t]

\* C6: IsInGeneratedCode returns false unless the thread has a current
\* Thread, is Runnable and holds the mutator lock shared; the lock is
\* tested only, never acquired.
C6_NeedsRunnableWithLock == []C6_State /\ [][C6_Action]_vars

\* A Runnable thread without the mutator lock was answered false for a PC
\* inside a registered range.
C6_Witness ==
  /\ Classified(MainThread)
  /\ tmode[MainThread] = "runnable_unlocked"
  /\ InRegistered(loc[MainThread].fault_pc)
  /\ ~loc[MainThread].in_gen

\* C7: once AddGeneratedCodeRange(s, n) followed at once by
\* RemoveGeneratedCodeRange(s, n) has returned, every address is answered
\* as it was before the add.
C7_RoundTrip == rt.phase = "removed" => LookupView = rt.view

\* A round trip has returned while another range with the same start and
\* another size stays registered.
C7_Witness ==
  /\ rt.phase = "removed"
  /\ \E n \in Linked : heap[n].start = rt.start /\ heap[n].size # rt.size

\* What RemoveGeneratedCodeRange(s, n) must do by its contract, read off
\* the list: abort unless the first linked node whose start is s has size n.
MustAbort(s, n) ==
  LET withStart == {i \in 1..Len(LinkedSeq) : heap[LinkedSeq[i]].start = s}
      first == CHOOSE i \in withStart : \A j \in withStart : i <= j
  IN withStart = {} \/ heap[LinkedSeq[first]].size # n

\* Thread t leaves the step that unlinks and checks.
LeavesUnlink(t) == pc[t] = "rm_unlink" /\ pc'[t] # "rm_unlink"

\* C8: RemoveGeneratedCodeRange(s, n) aborts the process exactly when no
\* linked node has start s or the first linked node with start s has a
\* size other than n; otherwise it goes on to delete the node.
C8_AbortIff ==
  [][\A t \in Threads :
       LeavesUnlink(t) =>
         /\ aborted' <=> MustAbort(loc[t].start, loc[t].size)
         /\ pc'[t] = (IF MustAbort(loc[t].start, loc[t].size)
                      THEN "rm_fatal" ELSE "rm_checkpoint")]_vars

\* The call aborted on the size of the first node with the start although
\* a range with that start and that size is registered behind it.
C8_Witness ==
  /\ aborted
  /\ pc[MainThread] = "rm_fatal"
  /\ loc[MainThread].range # Null
  /\ heap[loc[MainThread].range].size # loc[MainThread].size
  /\ registered[<<loc[MainThread].start, loc[MainThread].size>>] > 0

\* C9: a node that RemoveGeneratedCodeRange has unlinked is not reachable
\* from the head, and once the call has returned no lookup is answered true
\* on account of it: a true answer comes from a node the walk read whose
\* removal has not returned.
C9_RemovedIsGone ==
  /\ \A n \in Nodes : heap[n].st \in {"unlinked", "freed"} => n \notin Linked
  /\ \A t \in Threads :
       Classified(t) /\ loc[t].in_gen =>
         \E n \in visited[t] : heap[n].st # "freed" /\ Hit(n, loc[t].fault_pc)

\* A lookup that walked a list that is not empty was answered false for a
\* PC inside a range whose removal has returned.
C9_Witness ==
  /\ started
  /\ Classified(Walker)
  /\ ~loc[Walker].in_gen
  /\ visited[Walker] # {}
  /\ \E n \in Nodes : heap[n].st = "freed" /\ Hit(n, loc[Walker].fault_pc)

\* Sequence s without the element x.
Without(s, x) == SelectSeq(s, LAMBDA y : y # x)

\* C10: the unlink of a node leaves every other node linked, in its place
\* in the list and with its start and size, whether the node is the first,
\* in the middle or the last; the lookups are then those of the others.
C10_OthersStay ==
  [][\A t \in Threads :
       LeavesUnlink(t) /\ loc[t].range # Null =>
         /\ LinkedSeq' = Without(LinkedSeq, loc[t].range)
         /\ \A n \in Nodes \ {loc[t].range} :
              /\ heap'[n].st = heap[n].st
              /\ heap'[n].start = heap[n].start
              /\ heap'[n].size = heap[n].size
         /\ LookupView' = {a \in Addr \ {0} :
                             \E n \in Linked \ {loc[t].range} : Hit(n, a)}]_vars

\* A node has just been unlinked from the middle: a linked node now points
\* at the node the unlinked one still points at.
C10_Witness ==
  /\ pc[MainThread] = "rm_checkpoint"
  /\ heap[loc[MainThread].range].st = "unlinked"
  /\ heap[loc[MainThread].range].next # Null
  /\ \E p \in Linked : heap[p].next = heap[loc[MainThread].range].next

\* C11 as stated: at every reachable state at most one linked range has any
\* given start address.
C11_UniqueStarts ==
  \A n \in Linked : \A m \in Linked : heap[n].start = heap[m].start => n = m

\* The ranges added and not yet removed have distinct starts.
CallersKeepStartsDistinct ==
  \A q \in Regions : \A r \in Regions :
    registered[q] > 0 /\ registered[r] > 0 /\ q[1] = r[1] =>
      q = r /\ registered[q] = 1

\* C11, amended: AddGeneratedCodeRange does not reject a start that is
\* already linked; in the states where the callers have kept the starts of
\* the ranges added and not yet removed distinct, at most one linked range
\* has any given start address.
C11_UniqueStartsOfDistinctAdds == CallersKeepStartsDistinct => C11_UniqueStarts

\* Two ranges with distinct starts are linked, and a start is in use again
\* after an earlier range with that start has been removed and deleted.
C11_Witness ==
  /\ CallersKeepStartsDistinct
  /\ Cardinality(Linked) >= 2
  /\ \E n \in Nodes : \E m \in Linked :
       heap[n].st = "freed" /\ heap[n].start = heap[m].start

\* C12: once Shutdown has returned no handler is registered in either
\* sequence, the range list is empty and every node that was linked is
\* deleted, whatever calls of Init, Release, AddHandler and
\* AddGeneratedCodeRange came before.
C12_ShutdownLeavesNothing ==
  pc[MainThread] = "shutdown_ret" =>
    /\ generated_code_handlers_ = <<>>
    /\ other_handlers_ = <<>>
    /\ generated_code_ranges_ = Null
    /\ \A n \in Nodes : heap[n].st \in {"unalloc", "freed"}

\* Shutdown has returned after a Release: a handler is still registered and
\* not destroyed, a range is still linked.
C12_Witness ==
  /\ pc[MainThread] = "shutdown_ret"
  /\ loc[MainThread].prev = "release_ret"
  /\ \E i \in 1..Len(generated_code_handlers_) :
       generated_code_handlers_[i] \notin destroyed
  /\ generated_code_ranges_ # Null
  /\ heap[generated_code_ranges_].st = "linked"

RuntimeReaches(P) ==
  /\ pc'[MainThread] \in P
  /\ <<pc[MainThread], loc[MainThread]>> # <<pc'[MainThread], loc'[MainThread]>>

\* C14: Init on a manager that is initialized aborts and leaves the
\* installation in the signal chain as it is; Init on a manager that is not
\* initialized installs the entry point, sets initialized_ and returns.
C14_InitOnce ==
  [][RuntimeReaches({"init_ret", "init_fatal"}) =>
       IF initialized_
       THEN /\ aborted'
            /\ pc'[MainThread] = "init_fatal"
            /\ UNCHANGED <<initialized_, installed>>
       ELSE /\ ~aborted'
            /\ pc'[MainThread] = "init_ret"
            /\ initialized_'
            /\ installed']_vars

\* Init has aborted on an initialized manager, called right after an Init
\* that returned.
C14_Witness ==
  /\ pc[MainThread] = "init_fatal"
  /\ loc[MainThread].prev = "init_ret"
  /\ aborted
  /\ initialized_
  /\ installed

\* C15: when Shutdown has returned the manager is not initialized and not
\* installed, and an Init called next returns with the manager initialized
\* instead of aborting, whatever the state Shutdown was called in.
C15_ShutdownThenInit ==
  /\ pc[MainThread] = "shutdown_ret" => ~initialized_ /\ ~installed /\ ~aborted
  /\ loc[MainThread].prev = "shutdown_ret"
       /\ pc[MainThread] \in {"init_ret", "init_fatal"} =>
         /\ pc[MainThread] = "init_ret"
         /\ initialized_
         /\ ~aborted

\* Init has returned right after a Shutdown, on a manager that never had a
\* handler or a range.
C15_Witness ==
  /\ pc[MainThread] = "init_ret"
  /\ loc[MainThread].prev = "shutdown_ret"
  /\ initialized_
  /\ destroyed = {}
  /\ \A n \in Nodes : heap[n].st = "unalloc"

\* C16, the state left: after Release and after Shutdown the manager is
\* not initialized, so a second call finds it so.
C16_State ==
  pc[MainThread] \in {"release_ret", "shutdown_ret"} =>
    ~initialized_ /\ ~installed /\ ~aborted

\* C16, the step: Release or Shutdown on a manager that is not initialized
\* returns without a change to the flag, the installation, the handler
\* sequences, the handlers or the ranges.
C16_Action ==
  /\ pc[MainThread] \in {"idle"} \cup ReturnedPcs
  /\ RuntimeReaches({"release_ret", "shutdown_ret"} \cup ShutdownPcs)
  /\ ~initialized_
  =>
    /\ pc'[MainThread] \in {"release_ret", "shutdown_ret"}
    /\ ~aborted'
    /\ UNCHANGED <<initialized_, installed, generated_code_handlers_,
                   other_handlers_, destroyed, generated_code_ranges_, heap>>

C17_RemoveHandler ==
  [][RuntimeReaches({"removehandler_ret", "removehandler_fatal"}) =>
       LET h == loc'[MainThread].handler
       IN IF h \notin Range(generated_code_handlers_) \cup Range(other_handlers_)
          THEN /\ aborted'
               /\ pc'[MainThread] = "removehandler_fatal"
               /\ UNCHANGED <<generated_code_handlers_, other_handlers_>>
          ELSE /\ ~aborted'
               /\ pc'[MainThread] = "removehandler_ret"
               /\ IF h \in Range(generated_code_handlers_)
                  THEN /\ generated_code_handlers_' = Without(generated_code_handlers_, h)
                       /\ UNCHANGED other_handlers_
                  ELSE /\ other_handlers_' = Without(other_handlers_, h)
                       /\ UNCHANGED generated_code_handlers_]_vars

\* JavaStackTraceHandler has been removed from a sequence of three other
\* handlers; two remain.
C17_Witness ==
  /\ pc[MainThread] = "removehandler_ret"
  /\ loc[MainThread].handler = JavaStackTrace
  /\ Len(other_handlers_) = 2
  /\ JavaStackTrace \notin Range(other_handlers_)

\* C18, never blocked: whatever the writers are doing, a thread that may
\* take a fault can enter the handler, and a walk that has begun can take
\* its next step.
C18_State ==
  ~aborted =>
    /\ pc[Walker] = "idle" /\ started /\ installed =>
         \A a \in ConcurrentPcs : ENABLED HandleFault(Walker, a)
    /\ pc[Walker] = "walk_load" => ENABLED Walk_Load(Walker)
    /\ pc[Walker] = "walk_visit" => ENABLED Walk_Visit(Walker)

\* C18, never acquired: no step of the fault handler changes who holds
\* generated_code_ranges_lock_.
C18_Action ==
  /\ InFault(Walker) \/ InFault(Walker)'
  /\ <<pc[Walker], loc[Walker]>> # <<pc'[Walker], loc'[Walker]>>
  => generated_code_ranges_lock_' = generated_code_ranges_lock_

\* C18: a lookup never acquires generated_code_ranges_lock_ and never
\* waits: it can start and run to its end while a writer holds the lock or
\* is blocked in its checkpoint.
C18_LookupLockFree == []C18_State /\ [][C18_Action]_vars

\* A walk has read a node and stands on the next while one writer holds the
\* lock and another is blocked in its checkpoint, waiting for the walker.
C18_Witness ==
  /\ pc[Walker] = "walk_visit"
  /\ visited[Walker] # {}
  /\ generated_code_ranges_lock_ \in Writers
  /\ \E w \in Writers : pc[w] = "rm_delete" /\ Walker \in cpWait[w]

\* C19: no Action call of JavaStackTraceHandler claims a fault, in
\* generated code or not; with it as the only other handler, a fault that
\* no generated code handler claimed is offered to it and HandleFault
\* returns "unclaimed".
C19_JavaStackTraceNeverClaims ==
  \A t \in Threads :
    /\ \A i \in 1..Len(log[t]) :
         log[t][i].handler = JavaStackTrace => ~log[t][i].claimed
    /\ /\ pc[t] = "hf_return"
       /\ other_handlers_ = <<JavaStackTrace>>
       /\ ~\E i \in 1..Len(log[t]) :
             log[t][i].claimed /\ log[t][i].handler \in Range(generated_code_handlers_)
       => /\ loc[t].ret = "unclaimed"
          /\ log[t] # <<>>
          /\ log[t][Len(log[t])].handler = JavaStackTrace

\* A fault in generated code that the generated code handler declined:
\* JavaStackTraceHandler, the only other handler, dumped the stack, and
\* HandleFault returns "unclaimed".
C19_Witness ==
  /\ pc[MainThread] = "hf_return"
  /\ other_handlers_ = <<JavaStackTrace>>
  /\ generated_code_handlers_ # <<>>
  /\ loc[MainThread].in_gen
  /\ loc[MainThread].dumped
  /\ loc[MainThread].ret = "unclaimed"
  /\ Len(log[MainThread]) = Len(generated_code_handlers_) + 1

\* A thread is between taking and releasing generated_code_ranges_lock_.
InCritical(t) == pc[t] \in {"add_publish", "rm_unlink"}

\* C20, the state: at most one writer is in its critical section and it is
\* the holder of the lock; the nodes reachable from the head are exactly
\* the nodes added and not unlinked; and when no call is in progress the
\* list holds each region as often as it has been added and not removed.
C20_State ==
  /\ \A t \in Threads : InCritical(t) <=> generated_code_ranges_lock_ = t
  /\ \A n \in Nodes : heap[n].st = "linked" <=> n \in Linked
  /\ (\A t \in Threads : pc[t] = "idle") =>
       \A r \in Regions :
         Cardinality({n \in Linked : <<heap[n].start, heap[n].size>> = r})
           = registered[r]

\* C20, the step: the head or a next link is written only by the thread
\* that holds the lock from its acquisition to its release.
C20_Action ==
  \/ generated_code_ranges_' # generated_code_ranges_
  \/ \E n \in Nodes : heap'[n].next # heap[n].next
  => \E t \in Threads :
       /\ pc'[t] # pc[t]
       /\ generated_code_ranges_lock_ = t \/ generated_code_ranges_lock_' = t
       /\ generated_code_ranges_lock_ \in {t, NoThread}

\* C20: concurrent AddGeneratedCodeRange and RemoveGeneratedCodeRange calls
\* exclude each other and lose no update.
C20_WritersSerialized == []C20_State /\ [][C20_Action]_vars

\* One writer is about to publish its node while the other waits for the
\* lock with a node of its own, and the list is not empty.
C20_Witness ==
  /\ pc["main"] = "add_publish"
  /\ pc["jit"] = "add_lock"
  /\ generated_code_ranges_lock_ = "main"
  /\ generated_code_ranges_ # Null

\* Following next from node n reaches null within fuel steps.
RECURSIVE ReachesNull(_, _)
ReachesNull(n, fuel) ==
  IF n = Null THEN TRUE
  ELSE IF fuel = 0 THEN FALSE
  ELSE ReachesNull(heap[n].next, fuel - 1)

\* C21, the links: the chain of next links from the head, and from every
\* node that is allocated and not deleted, reaches null without passing a
\* node twice; a walk never stands on a node it has read before.
C21_State ==
  /\ ReachesNull(generated_code_ranges_, MaxNodes)
  /\ \A n \in Nodes :
       heap[n].st \in {"new", "linked", "unlinked"} => ReachesNull(n, MaxNodes)
  /\ \A t \in Threads :
       pc[t] = "walk_visit" => loc[t].range \notin visited[t]

\* A walk is running on thread t.
Walking(t) == pc[t] \in {"walk_load", "walk_visit"}

\* C21: the list is finite and acyclic in every reachable state, also seen
\* from an unlinked node, and every IsInGeneratedCode walk comes to its end
\* whatever the writers do meanwhile.
C21_WalkTerminates == []C21_State /\ (Walking(Walker) ~> ~Walking(Walker))

\* A walk has read a node, stands on another that has been unlinked,
\* and a node has been added since the walk loaded the head.
C21_Witness ==
  /\ pc[Walker] = "walk_visit"
  /\ Cardinality(visited[Walker]) >= 1
  /\ heap[loc[Walker].range].st = "unlinked"
  /\ generated_code_ranges_ # Null
  /\ generated_code_ranges_ \notin snap[Walker]

\* C22: a thread in RemoveGeneratedCodeRange does not hold
\* generated_code_ranges_lock_ when it runs its checkpoint or frees the node,
\* and no other thread holds the lock on its behalf; so a remover that has
\* left the unlink returns (or the process has aborted), even when the thread
\* its checkpoint waits for is a Runnable writer waiting for the lock.
PastUnlink(t) == pc[t] \in {"rm_checkpoint", "rm_delete"}
C22_State ==
  \A t \in Threads : PastUnlink(t) => generated_code_ranges_lock_ # t
C22_CheckpointOutsideLock ==
  /\ []C22_State
  /\ \A t \in Writers : PastUnlink(t) ~> (pc[t] = "idle" \/ aborted)

\* A remover waits in its checkpoint for a Runnable writer that is waiting
\* for the lock.
C22_Witness ==
  \E w \in Writers : \E u \in Writers \ {w} :
    /\ pc[w] = "rm_delete"
    /\ u \in cpWait[w]
    /\ tmode[u] = "runnable"
    /\ pc[u] \in {"add_lock", "rm_lock"}
    /\ ~AtSuspendPoint(u)

\* The handlers a thread's last dispatch has invoked.
Invoked(t) == {log[t][i].handler : i \in 1..Len(log[t])}

\* C23, the states: while Shutdown destroys handlers and frees nodes the
\* entry point is not installed, no dispatch is in progress and no
\* checkpoint is waited for; a dispatch in progress has invoked no destroyed
\* handler and walks no freed node.
C23_State ==
  /\ pc[MainThread] \in ShutdownPcs =>
       /\ ~installed
       /\ NoDispatch
       /\ cpWait[MainThread] = {}
  /\ \A t \in Threads :
       InFault(t) =>
         /\ Invoked(t) \cap destroyed = {}
         /\ \A n \in snap[t] : heap[n].st # "freed"
         /\ pc[t] = "walk_visit" => heap[loc[t].range].st # "freed"

\* C23, the steps: a dispatch begins only while the entry point is
\* installed; a step of Shutdown that destroys a handler or frees a node is
\* taken after the uninstall and starts no checkpoint.
FreesNode == \E n \in Nodes : heap[n].st # "freed" /\ heap'[n].st = "freed"
C23_Action ==
  /\ \A t \in Threads : ~InFault(t) /\ InFault(t)' => installed
  /\ pc[MainThread] \in ShutdownPcs /\ (destroyed' # destroyed \/ FreesNode) =>
       /\ ~installed
       /\ cpWait' = cpWait
       /\ ~loc'[MainThread].checkpoint

\* C23: within Shutdown on an initialized manager the entry point is
\* uninstalled before any handler is destroyed and before any node is freed,
\* so no dispatch that begins after the uninstall invokes a destroyed handler
\* or walks a freed node; the nodes are freed without a checkpoint.
C23_UninstallFirst == []C23_State /\ [][C23_Action]_vars

\* Shutdown has returned on a started runtime with Runnable threads beside
\* the caller: handlers of both sequences are destroyed and a node is freed,
\* the entry point is uninstalled and no checkpoint was run.
C23_Witness ==
  /\ pc[MainThread] = "shutdown_ret"
  /\ loc[MainThread].prev # "release_ret"
  /\ started
  /\ CheckpointTargets(MainThread) # {}
  /\ Cardinality(destroyed) >= 2
  /\ \E n \in Nodes : heap[n].st = "freed"
  /\ ~installed
  /\ cpWait[MainThread] = {}
  /\ ~loc[MainThread].checkpoint

====
